---- MODULE Spec2Model ----
(***************************************************************************)
(* yt-finder-js: YoutubeSearch (fetch with retry, extraction of the        *)
(* ytInitialData object, mapping to VideoResult) as a state machine.       *)
(*                                                                         *)
(* Strings are sequences of one-character strings; JavaScript indices are  *)
(* 0-based and are kept 0-based in indexOf/substring.  JavaScript values   *)
(* are tagged records (field t): undefined, null, boolean, string, array,  *)
(* object (an ordered list of key/value pairs).                            *)
(***************************************************************************)
EXTENDS Integers, Sequences, FiniteSets, TLC

VARIABLES
    \* ---- YoutubeSearch instances (fields set by the constructor) ----
    searchTerms,    \* this.searchTerms, per instance
    maxResults,     \* this.maxResults, per instance (Null when not given)
    RETRY_COUNT,    \* this.RETRY_COUNT, per instance
    videos,         \* this.videos, per instance (Null or a list of VideoResult)
    \* ---- one search() invocation per caller ----
    inst,           \* the instance each caller calls search() on
    pc,             \* where the invocation is suspended
    url,            \* _search: const url
    attempt,        \* _getResponseWithRetry: let attempt
    responseText,   \* the body read by response.text() (an id of Network)
    parsed,         \* the value _parseHtml(response) resolved to
    settled,        \* how the promise returned by search() settled
    ret,            \* the value it resolved to
    thrown,         \* the error search() caught (or let through)
    \* ---- observation of the environment and of the run ----
    reqs,           \* the target URL of every GET the invocation issued
    hist,           \* the outcome of every attempt of the invocation
    wrote,          \* instance fields the invocation has assigned
    overlapped,     \* the two invocations were in flight at the same time
    lastOk,         \* per instance: what the last search() that fetched returned
    \* ---- _parseHtml applied to one text (extraction on its own) ----
    hPc,            \* "input", "parsed" or "compared"
    hLayout,        \* how the text embeds the result object
    hItems,         \* the sections (lists of entries) of the result object
    hText,          \* the page text
    hOut,           \* _parseHtml(hText), once applied
    hPath,          \* the source path removed from one entry
    hIdx,           \* the entry it was removed from
    hOut2           \* _parseHtml of the text with that key removed

vars == <<searchTerms, maxResults, RETRY_COUNT, videos, inst, pc, url, attempt,
          responseText, parsed, settled, ret, thrown, reqs, hist, wrote,
          overlapped, lastOk, hPc, hLayout, hItems, hText, hOut, hPath, hIdx,
          hOut2>>

searchVars == <<searchTerms, maxResults, RETRY_COUNT, videos, inst, pc, url,
                attempt, responseText, parsed, settled, ret, thrown, reqs, hist,
                wrote, overlapped, lastOk>>

parseVars == <<hPc, hLayout, hItems, hText, hOut, hPath, hIdx, hOut2>>

-----------------------------------------------------------------------------
(* JavaScript values *)

Undefined == [t |-> "undefined"]
Null == [t |-> "null"]
JBool(b) == [t |-> "boolean", b |-> b]
JStr(s) == [t |-> "string", s |-> s]
JArr(a) == [t |-> "array", a |-> a]
JObj(kv) == [t |-> "object", kv |-> kv]
KV(k, v) == [k |-> k, v |-> v]

Nullish(v) == v.t \in {"undefined", "null"}

\* ToBoolean: what `!x`, `x || y` and `x ? a : b` test.
Truthy(v) ==
    CASE v.t = "object" -> TRUE
      [] v.t = "array" -> TRUE
      [] v.t = "string" -> v.s # <<>>
      [] v.t = "boolean" -> v.b
      [] OTHER -> FALSE

\* x || y
OrElse(x, y) == IF Truthy(x) THEN x ELSE y

HasKey(v, k) == v.t = "object" /\ \E i \in 1..Len(v.kv) : v.kv[i].k = k

\* v.k for a v that is neither null nor undefined (none of the keys read by
\* the program is a built-in property of strings, arrays or booleans).
Get(v, k) ==
    IF HasKey(v, k)
    THEN v.kv[CHOOSE i \in 1..Len(v.kv) : v.kv[i].k = k].v
    ELSE Undefined

\* v?.k
Opt(v, k) == IF Nullish(v) THEN Undefined ELSE Get(v, k)

\* v?.[0]
OptIndex0(v) ==
    CASE v.t = "array" -> IF v.a = <<>> THEN Undefined ELSE v.a[1]
      [] v.t = "string" -> IF v.s = <<>> THEN Undefined ELSE JStr(<<v.s[1]>>)
      [] v.t = "object" -> Get(v, <<"0">>)
      [] OTHER -> Undefined

\* for (const x of v): arrays and strings are iterable, the rest is not.
Iterable(v) == v.t \in {"array", "string"}

IterItems(v) ==
    IF v.t = "array" THEN v.a ELSE [i \in 1..Len(v.s) |-> JStr(<<v.s[i]>>)]

-----------------------------------------------------------------------------
(* String operations of the JavaScript runtime *)

Clamp(i, n) == IF i < 0 THEN 0 ELSE IF i > n THEN n ELSE i

SetMin(S) == CHOOSE x \in S : \A y \in S : x <= y

\* String.prototype.indexOf(pat, from); 0-based, -1 when absent.
indexOf(s, pat, from) ==
    LET f == Clamp(from, Len(s))
        hits == {i \in f..(Len(s) - Len(pat)) :
                    /\ s[i + 1] = pat[1]
                    /\ SubSeq(s, i + 1, i + Len(pat)) = pat}
    IN  IF hits = {} THEN -1 ELSE SetMin(hits)

includes(s, pat) == indexOf(s, pat, 0) # -1

startsWith(s, pat) == Len(s) >= Len(pat) /\ SubSeq(s, 1, Len(pat)) = pat

\* String.prototype.substring(a, b): both clamped to [0, length], swapped
\* when a > b.
substring(s, a, b) ==
    LET a1 == Clamp(a, Len(s))
        b1 == Clamp(b, Len(s))
    IN  IF a1 <= b1 THEN SubSeq(s, a1 + 1, b1) ELSE SubSeq(s, b1 + 1, a1)

-----------------------------------------------------------------------------
(* JSON.parse, by recursive descent over the characters.  Covered: objects, *)
(* arrays, strings without escape sequences, null, true, false, and spaces  *)
(* between tokens; a later duplicate key replaces the earlier value.        *)
(* Numbers and backslash escapes are not covered: the page texts of the     *)
(* model hold no digit and no backslash.                                    *)

At(s, i) == IF i \in 1..Len(s) THEN s[i] ELSE "EOF"

RECURSIVE SkipWs(_, _)
SkipWs(s, i) == IF At(s, i) = " " THEN SkipWs(s, i + 1) ELSE i

RECURSIVE StringEnd(_, _)
\* The position of the quote closing a string whose content starts at i;
\* 0 when the string is not closed or holds a backslash.
StringEnd(s, i) ==
    CASE At(s, i) = "\"" -> i
      [] At(s, i) \in {"EOF", "\\"} -> 0
      [] OTHER -> StringEnd(s, i + 1)

Fail == [ok |-> FALSE, v |-> Undefined, n |-> 0]
Ok(v, n) == [ok |-> TRUE, v |-> v, n |-> n]

Lit_null == <<"n","u","l","l">>
Lit_true == <<"t","r","u","e">>
Lit_false == <<"f","a","l","s","e">>

IsLit(s, i, lit) ==
    i + Len(lit) - 1 <= Len(s) /\ SubSeq(s, i, i + Len(lit) - 1) = lit

\* A property defined twice keeps its first position and its last value.
PutKV(kv, k, v) ==
    IF \E i \in 1..Len(kv) : kv[i].k = k
    THEN [i \in 1..Len(kv) |-> IF kv[i].k = k THEN KV(k, v) ELSE kv[i]]
    ELSE Append(kv, KV(k, v))

ParseString(s, i) ==
    LET e == StringEnd(s, i + 1)
    IN  IF At(s, i) = "\"" /\ e # 0
        THEN Ok(JStr(SubSeq(s, i + 1, e - 1)), e + 1)
        ELSE Fail

RECURSIVE ParseValue(_, _), ParseMembers(_, _, _), ParseElements(_, _, _)

\* s[i] starts a key; acc holds the members read so far.
ParseMembers(s, i, acc) ==
    LET key == ParseString(s, i)
        c == SkipWs(s, key.n)
        val == ParseValue(s, c + 1)
        d == SkipWs(s, val.n)
        acc2 == PutKV(acc, key.v.s, val.v)
    IN  IF ~key.ok \/ At(s, c) # ":" THEN Fail
        ELSE IF ~val.ok THEN Fail
        ELSE IF At(s, d) = "," THEN ParseMembers(s, SkipWs(s, d + 1), acc2)
        ELSE IF At(s, d) = "}" THEN Ok(JObj(acc2), d + 1)
        ELSE Fail

\* s[i] starts an element; acc holds the elements read so far.
ParseElements(s, i, acc) ==
    LET val == ParseValue(s, i)
        d == SkipWs(s, val.n)
    IN  IF ~val.ok THEN Fail
        ELSE IF At(s, d) = "," THEN ParseElements(s, d + 1, Append(acc, val.v))
        ELSE IF At(s, d) = "]" THEN Ok(JArr(Append(acc, val.v)), d + 1)
        ELSE Fail

ParseValue(s, i0) ==
    LET i == SkipWs(s, i0)
        ch == At(s, i)
        j == SkipWs(s, i + 1)
    IN  CASE ch = "{" -> IF At(s, j) = "}" THEN Ok(JObj(<<>>), j + 1)
                         ELSE ParseMembers(s, j, <<>>)
          [] ch = "[" -> IF At(s, j) = "]" THEN Ok(JArr(<<>>), j + 1)
                         ELSE ParseElements(s, j, <<>>)
          [] ch = "\"" -> ParseString(s, i)
          [] ch = "n" -> IF IsLit(s, i, Lit_null) THEN Ok(Null, i + 4) ELSE Fail
          [] ch = "t" -> IF IsLit(s, i, Lit_true) THEN Ok(JBool(TRUE), i + 4) ELSE Fail
          [] ch = "f" -> IF IsLit(s, i, Lit_false) THEN Ok(JBool(FALSE), i + 5) ELSE Fail
          [] OTHER -> Fail

\* JSON.parse(s): [ok |-> FALSE] stands for the SyntaxError it throws.
JSON_parse(s) ==
    LET r == ParseValue(s, 1)
    IN  IF r.ok /\ SkipWs(s, r.n) = Len(s) + 1 THEN [ok |-> TRUE, v |-> r.v]
        ELSE [ok |-> FALSE, v |-> Undefined]

\* JSON.stringify of a parsed value (no spaces), used to build page texts.
RECURSIVE Stringify(_), StringifyKVs(_), StringifyElems(_)
StringifyKVs(kv) ==
    IF kv = <<>> THEN <<>>
    ELSE <<"\"">> \o kv[1].k \o <<"\"", ":">> \o Stringify(kv[1].v)
         \o (IF Len(kv) > 1 THEN <<",">> ELSE <<>>) \o StringifyKVs(Tail(kv))

StringifyElems(a) ==
    IF a = <<>> THEN <<>>
    ELSE Stringify(a[1]) \o (IF Len(a) > 1 THEN <<",">> ELSE <<>>)
         \o StringifyElems(Tail(a))

Stringify(v) ==
    CASE v.t = "object" -> <<"{">> \o StringifyKVs(v.kv) \o <<"}">>
      [] v.t = "array" -> <<"[">> \o StringifyElems(v.a) \o <<"]">>
      [] v.t = "string" -> <<"\"">> \o v.s \o <<"\"">>
      [] v.t = "boolean" -> IF v.b THEN Lit_true ELSE Lit_false
      [] OTHER -> Lit_null

-----------------------------------------------------------------------------
(* Constants set by the YoutubeSearch constructor *)

BASE_URL == <<"h","t","t","p","s",":","/","/","y","o","u","t","u","b","e",".","c","o","m">>
YT_INITIAL_DATA_MARKER == <<"y","t","I","n","i","t","i","a","l","D","a","t","a">>
JSON_END_MARKER == <<"}",";">>
JSON_START_OFFSET == Len(YT_INITIAL_DATA_MARKER) + 3

(* The property names _parseHtml reads *)

K_contents == <<"c","o","n","t","e","n","t","s">>
K_twoColumnSearchResultsRenderer == <<"t","w","o","C","o","l","u","m","n","S","e","a","r","c","h","R","e","s","u","l","t","s","R","e","n","d","e","r","e","r">>
K_primaryContents == <<"p","r","i","m","a","r","y","C","o","n","t","e","n","t","s">>
K_sectionListRenderer == <<"s","e","c","t","i","o","n","L","i","s","t","R","e","n","d","e","r","e","r">>
K_itemSectionRenderer == <<"i","t","e","m","S","e","c","t","i","o","n","R","e","n","d","e","r","e","r">>
K_videoRenderer == <<"v","i","d","e","o","R","e","n","d","e","r","e","r">>
K_videoId == <<"v","i","d","e","o","I","d">>
K_thumbnail == <<"t","h","u","m","b","n","a","i","l">>
K_thumbnails == <<"t","h","u","m","b","n","a","i","l","s">>
K_url == <<"u","r","l">>
K_title == <<"t","i","t","l","e">>
K_runs == <<"r","u","n","s">>
K_text == <<"t","e","x","t">>
K_descriptionSnippet == <<"d","e","s","c","r","i","p","t","i","o","n","S","n","i","p","p","e","t">>
K_longBylineText == <<"l","o","n","g","B","y","l","i","n","e","T","e","x","t">>
K_lengthText == <<"l","e","n","g","t","h","T","e","x","t">>
K_simpleText == <<"s","i","m","p","l","e","T","e","x","t">>
K_viewCountText == <<"v","i","e","w","C","o","u","n","t","T","e","x","t">>
K_publishedTimeText == <<"p","u","b","l","i","s","h","e","d","T","i","m","e","T","e","x","t">>
K_navigationEndpoint == <<"n","a","v","i","g","a","t","i","o","n","E","n","d","p","o","i","n","t">>
K_commandMetadata == <<"c","o","m","m","a","n","d","M","e","t","a","d","a","t","a">>
K_webCommandMetadata == <<"w","e","b","C","o","m","m","a","n","d","M","e","t","a","d","a","t","a">>

-----------------------------------------------------------------------------
(* VideoResult *)

\* new VideoResult(data): every field `data.x || null`, thumbnails
\* `data.thumbnails || []`.
VideoResult(data) ==
    [id          |-> OrElse(data.id, Null),
     thumbnails  |-> OrElse(data.thumbnails, JArr(<<>>)),
     title       |-> OrElse(data.title, Null),
     longDesc    |-> OrElse(data.long_desc, Null),
     channel     |-> OrElse(data.channel, Null),
     duration    |-> OrElse(data.duration, Null),
     views       |-> OrElse(data.views, Null),
     publishTime |-> OrElse(data.publish_time, Null),
     urlSuffix   |-> OrElse(data.url_suffix, Null),
     ytUrl       |-> OrElse(data.yt_url, Null)]

\* String(v), as a template literal converts a truthy value.
RECURSIVE TemplateString(_), JoinElems(_)
JoinElems(a) ==
    IF a = <<>> THEN <<>>
    ELSE (IF Nullish(a[1]) THEN <<>> ELSE TemplateString(a[1]))
         \o (IF Len(a) > 1 THEN <<",">> ELSE <<>>) \o JoinElems(Tail(a))

TemplateString(v) ==
    CASE v.t = "string" -> v.s
      [] v.t = "boolean" -> IF v.b THEN Lit_true ELSE Lit_false
      [] v.t = "array" -> JoinElems(v.a)
      [] v.t = "object" ->
            <<"[","o","b","j","e","c","t"," ","O","b","j","e","c","t","]">>
      [] v.t = "null" -> Lit_null
      [] OTHER -> <<"u","n","d","e","f","i","n","e","d">>

-----------------------------------------------------------------------------
(* _parseHtml *)

\* video_renderer.thumbnail?.thumbnails
ThumbnailList(vr) == Opt(Get(vr, K_thumbnail), K_thumbnails)

\* `.map(thumb => thumb.url)` raises a TypeError when the value has no map
\* method (it is not an array) or when an element is null.
ThumbnailsThrow(vr) ==
    LET th == ThumbnailList(vr)
    IN  /\ ~Nullish(th)
        /\ \/ th.t # "array"
           \/ \E i \in 1..Len(th.a) : Nullish(th.a[i])

\* The object literal video_data built for one videoRenderer.
VideoData(vr) ==
    LET url_suffix == Opt(Opt(Opt(Get(vr, K_navigationEndpoint),
                                  K_commandMetadata),
                              K_webCommandMetadata), K_url)
        yt_url == IF Truthy(url_suffix)
                  THEN JStr(BASE_URL \o TemplateString(url_suffix)) ELSE Null
        th == ThumbnailList(vr)
    IN  [id           |-> Get(vr, K_videoId),
         thumbnails   |-> IF Nullish(th) THEN JArr(<<>>)
                          ELSE JArr([i \in 1..Len(th.a) |-> Get(th.a[i], K_url)]),
         title        |-> OrElse(Opt(OptIndex0(Opt(Get(vr, K_title), K_runs)), K_text), Null),
         long_desc    |-> OrElse(Opt(OptIndex0(Opt(Get(vr, K_descriptionSnippet), K_runs)), K_text), Null),
         channel      |-> OrElse(Opt(OptIndex0(Opt(Get(vr, K_longBylineText), K_runs)), K_text), Null),
         duration     |-> OrElse(Opt(Get(vr, K_lengthText), K_simpleText), Null),
         views        |-> OrElse(Opt(Get(vr, K_viewCountText), K_simpleText), Null),
         publish_time |-> OrElse(Opt(Get(vr, K_publishedTimeText), K_simpleText), Null),
         url_suffix   |-> url_suffix,
         yt_url       |-> yt_url]

Caught(results) == [caught |-> TRUE, results |-> results]
Returned(results) == [caught |-> FALSE, results |-> results]

RECURSIVE ItemLoop(_, _, _)
\* for (const video of item_section), from its i-th element on.
ItemLoop(items, i, results) ==
    IF i > Len(items) THEN Returned(results)
    ELSE LET video_renderer == Opt(items[i], K_videoRenderer)
         IN  IF ~Truthy(video_renderer) THEN ItemLoop(items, i + 1, results)
             ELSE IF ThumbnailsThrow(video_renderer) THEN Caught(results)
             ELSE ItemLoop(items, i + 1,
                           Append(results, VideoResult(VideoData(video_renderer))))

RECURSIVE SectionLoop(_, _, _)
\* for (const contents of section_list), from its i-th element on.
SectionLoop(sections, i, results) ==
    IF i > Len(sections) THEN Returned(results)
    ELSE LET item_section == Opt(Opt(sections[i], K_itemSectionRenderer), K_contents)
             r == ItemLoop(IterItems(item_section), 1, results)
         IN  IF ~Truthy(item_section) THEN SectionLoop(sections, i + 1, results)
             ELSE IF ~Iterable(item_section) THEN Caught(results)
             ELSE IF r.caught THEN r
             ELSE SectionLoop(sections, i + 1, r.results)

\* data?.contents?.twoColumnSearchResultsRenderer?.primaryContents
\*     ?.sectionListRenderer?.contents
SectionList(data) ==
    Opt(Opt(Opt(Opt(Opt(data, K_contents), K_twoColumnSearchResultsRenderer),
                K_primaryContents), K_sectionListRenderer), K_contents)

\* The slice of the response handed to JSON.parse.
JsonSlice(response) ==
    LET start_index == indexOf(response, YT_INITIAL_DATA_MARKER, 0) + JSON_START_OFFSET
        end_index == indexOf(response, JSON_END_MARKER, start_index) + 1
    IN  substring(response, start_index, end_index)

\* The body of _parseHtml: what it returns, and whether its catch ran.
parseHtmlRun(response) ==
    LET data == JSON_parse(JsonSlice(response))
        section_list == SectionList(data.v)
    IN  IF ~data.ok THEN Caught(<<>>)
        ELSE IF ~Truthy(section_list) THEN Returned(<<>>)
        ELSE IF ~Iterable(section_list) THEN Caught(<<>>)
        ELSE SectionLoop(IterItems(section_list), 1, <<>>)

_parseHtml(response) == parseHtmlRun(response).results

-----------------------------------------------------------------------------
(* Page texts: result objects as YouTube's page embeds them *)

MaxSections == 2
MaxPerSection == 1

RunsOf(s) == JObj(<<KV(K_runs, JArr(<<JObj(<<KV(K_text, JStr(s))>>)>>))>>)
SimpleOf(s) == JObj(<<KV(K_simpleText, JStr(s))>>)
ThumbsOf(list) == JObj(<<KV(K_thumbnails, JArr(list))>>)
NavOf(s) ==
    JObj(<<KV(K_commandMetadata,
              JObj(<<KV(K_webCommandMetadata, JObj(<<KV(K_url, JStr(s))>>))>>))>>)
VideoEntry(kv) == JObj(<<KV(K_videoRenderer, JObj(kv))>>)

\* An entry with every property _parseHtml reads.
FullEntry ==
    VideoEntry(<<KV(K_videoId, JStr(<<"i","d","A">>)),
                 KV(K_thumbnail, ThumbsOf(<<JObj(<<KV(K_url, JStr(<<"t",".","j","p","g">>))>>)>>)),
                 KV(K_title, RunsOf(<<"T">>)),
                 KV(K_descriptionSnippet, RunsOf(<<"D">>)),
                 KV(K_longBylineText, RunsOf(<<"C">>)),
                 KV(K_lengthText, SimpleOf(<<"L">>)),
                 KV(K_viewCountText, SimpleOf(<<"V">>)),
                 KV(K_publishedTimeText, SimpleOf(<<"P">>)),
                 KV(K_navigationEndpoint, NavOf(<<"/","w">>))>>)

\* An entry whose title holds the characters of the end marker.
BraceEntry ==
    VideoEntry(<<KV(K_videoId, JStr(<<"i","d","B">>)),
                 KV(K_title, RunsOf(<<"a","}",";","b">>))>>)

\* An entry whose description holds the text of the start marker.
MarkerEntry ==
    VideoEntry(<<KV(K_videoId, JStr(<<"i","d","M">>)),
                 KV(K_descriptionSnippet, RunsOf(YT_INITIAL_DATA_MARKER))>>)

\* An entry with a video id and nothing else.
BareEntry == VideoEntry(<<KV(K_videoId, JStr(<<"i","d","C">>))>>)

\* An entry whose thumbnail list holds a null.
NullThumbEntry ==
    VideoEntry(<<KV(K_videoId, JStr(<<"i","d","N">>)),
                 KV(K_thumbnail, ThumbsOf(<<Null>>)),
                 KV(K_title, RunsOf(<<"N">>))>>)

\* An entry that is no video (an ad, a shelf header).
AdEntry == JObj(<<KV(<<"a","d">>, JObj(<<>>))>>)

Entries == {FullEntry, BraceEntry, MarkerEntry, BareEntry, NullThumbEntry, AdEntry}

SeqsUpTo(S, n) == UNION {[1..k -> S] : k \in 0..n}

PageItems == SeqsUpTo(SeqsUpTo(Entries, MaxPerSection), MaxSections)

\* The result object holding the given sections.
ResultObject(sections) ==
    LET sec(i) == JObj(<<KV(K_itemSectionRenderer,
                            JObj(<<KV(K_contents, JArr(sections[i]))>>))>>)
        list == JArr([i \in 1..Len(sections) |-> sec(i)])
    IN  JObj(<<KV(K_contents,
             JObj(<<KV(K_twoColumnSearchResultsRenderer,
             JObj(<<KV(K_primaryContents,
             JObj(<<KV(K_sectionListRenderer,
             JObj(<<KV(K_contents, list)>>))>>))>>))>>))>>)

ScriptOpen == <<"<","s","c","r","i","p","t",">","v","a","r"," ">>
ScriptClose == <<"<","/","s","c","r","i","p","t",">">>
Assign == <<" ","="," ">>
Offset15Open == <<"<","s","c","r","i","p","t",">","v","a","r"," ","d"," ","=">>

Layouts == {"marker", "offset15"}

\* "marker":   <script>var ytInitialData = {...};</script>
\* "offset15": <script>var d ={...};</script>  (the object starts at offset 15)
PageText(layout, sections) ==
    IF layout = "marker"
    THEN ScriptOpen \o YT_INITIAL_DATA_MARKER \o Assign
         \o Stringify(ResultObject(sections)) \o <<";">> \o ScriptClose
    ELSE Offset15Open \o Stringify(ResultObject(sections)) \o <<";">> \o ScriptClose

-----------------------------------------------------------------------------
(* _parseHtml applied to one page text, and to the same text with one key  *)
(* of one videoRenderer entry removed                                       *)

\* The source paths of the record fields; a removal point is a non-empty
\* prefix of one of them.
SourcePaths ==
    {<<K_thumbnail, K_thumbnails>>,
     <<K_title, K_runs>>,
     <<K_descriptionSnippet, K_runs>>,
     <<K_longBylineText, K_runs>>,
     <<K_lengthText, K_simpleText>>,
     <<K_viewCountText, K_simpleText>>,
     <<K_publishedTimeText, K_simpleText>>,
     <<K_navigationEndpoint, K_commandMetadata, K_webCommandMetadata, K_url>>}

RemovalPoints == UNION {{SubSeq(p, 1, n) : n \in 1..Len(p)} : p \in SourcePaths}

RECURSIVE HasPath(_, _)
HasPath(v, path) ==
    IF path = <<>> THEN TRUE
    ELSE HasKey(v, Head(path)) /\ HasPath(Get(v, Head(path)), Tail(path))

RECURSIVE RemovePath(_, _)
\* v without the property path leads to (v itself when it is not there).
RemovePath(v, path) ==
    IF ~HasKey(v, Head(path)) THEN v
    ELSE IF Len(path) = 1
    THEN JObj(SelectSeq(v.kv, LAMBDA e : e.k # Head(path)))
    ELSE JObj([i \in 1..Len(v.kv) |->
                 IF v.kv[i].k = Head(path)
                 THEN KV(v.kv[i].k, RemovePath(v.kv[i].v, Tail(path)))
                 ELSE v.kv[i]])

\* The sections with path removed from the videoRenderer of entry <<si, ii>>.
WithoutKey(sections, si, ii, path) ==
    [sections EXCEPT ![si][ii] =
        RemovePath(sections[si][ii], <<K_videoRenderer>> \o path)]

InitParse ==
    /\ hPc = "input"
    /\ hLayout \in Layouts
    /\ hItems \in PageItems
    /\ hText = PageText(hLayout, hItems)
    /\ hOut = <<>>
    /\ hPath = <<>>
    /\ hIdx = <<0, 0>>
    /\ hOut2 = <<>>

ParseText ==
    /\ hPc = "input"
    /\ hOut' = _parseHtml(hText)
    /\ hPc' = "parsed"
    /\ UNCHANGED <<hLayout, hItems, hText, hPath, hIdx, hOut2>>
    /\ UNCHANGED searchVars

ParseWithoutKey ==
    /\ hPc = "parsed"
    /\ \E si \in 1..Len(hItems) : \E ii \in 1..Len(hItems[si]) :
       \E path \in RemovalPoints :
          /\ HasPath(hItems[si][ii], <<K_videoRenderer>> \o path)
          /\ hIdx' = <<si, ii>>
          /\ hPath' = path
          /\ hOut2' = _parseHtml(PageText(hLayout, WithoutKey(hItems, si, ii, path)))
    /\ hPc' = "compared"
    /\ UNCHANGED <<hLayout, hItems, hText, hOut>>
    /\ UNCHANGED searchVars

-----------------------------------------------------------------------------
(* encodeURIComponent *)

\* A lone surrogate code unit (U+D800), as one character of a string.
LoneSurrogate == "uD800"

Unreserved ==
    {"a", "b", "c", "d", "e", "f", "g", "h", "i", "j", "k", "l", "m", "n", "o", "p", "q", "r", "s", "t", "u", "v", "w", "x", "y", "z"}
    \cup {"A", "B", "C", "D", "E", "F", "G", "H", "I", "J", "K", "L", "M", "N", "O", "P", "Q", "R", "S", "T", "U", "V", "W", "X", "Y", "Z"}
    \cup {"0", "1", "2", "3", "4", "5", "6", "7", "8", "9"}
    \cup {"-", "_", ".", "!", "~", "*", "'", "(", ")"}

\* The escape of one ASCII character that is not unreserved.
PercentEscape(ch) ==
    CASE ch = " " -> <<"%","2","0">>
      [] ch = "#" -> <<"%","2","3">>
      [] ch = "%" -> <<"%","2","5">>
      [] ch = "&" -> <<"%","2","6">>
      [] ch = "+" -> <<"%","2","B">>
      [] ch = "/" -> <<"%","2","F">>
      [] ch = ":" -> <<"%","3","A">>
      [] ch = "=" -> <<"%","3","D">>
      [] ch = "?" -> <<"%","3","F">>

RECURSIVE EncodeChars(_)
EncodeChars(s) ==
    IF s = <<>> THEN <<>>
    ELSE (IF Head(s) \in Unreserved THEN <<Head(s)>> ELSE PercentEscape(Head(s)))
         \o EncodeChars(Tail(s))

\* encodeURIComponent(s): a URIError when s holds a lone surrogate.
encodeURIComponent(s) ==
    IF \E i \in 1..Len(s) : s[i] = LoneSurrogate
    THEN [threw |-> TRUE, v |-> <<>>]
    ELSE [threw |-> FALSE, v |-> EncodeChars(s)]

-----------------------------------------------------------------------------
(* YoutubeSearch: constructor *)

MaxRetry == 2
DefaultRetryCount == 5

Instances == {1, 2}
Callers == {1, 2}

SearchPath == <<"/","r","e","s","u","l","t","s","?","s","e","a","r","c","h","_","q","u","e","r","y","=">>

T_plain == <<"j","s">>
T_space == <<"a"," ","b">>
T_reserved == <<"a","/","b","?">>
T_url == BASE_URL \o SearchPath \o <<"x">>
T_short == <<"h","t","t","p","s",":","/","/","y","o","u","t","u","b","e",".","c","o">>
T_surrogate == <<"a", LoneSurrogate>>

Terms == {T_plain, T_space, T_reserved, T_url, T_short, T_surrogate}

\* The options a caller passes; 0 stands for an option that is not given.
Options == [maxResults : {0, 1}, retryCount : 0..MaxRetry]

\* new YoutubeSearch(terms, options): the fields the methods read.  A field
\* that is null is 0 here (maxResults); videos is the JavaScript value.
\* language, region and sleepTime are stored and change no step: no method
\* reads the first two, and the length of the delay orders nothing.
YoutubeSearch(terms, options) ==
    [searchTerms |-> terms,
     maxResults  |-> options.maxResults,
     RETRY_COUNT |-> IF options.retryCount # 0 THEN options.retryCount
                     ELSE DefaultRetryCount,
     videos      |-> Null]

-----------------------------------------------------------------------------
(* The network: the bodies a GET of the target URL may deliver *)

PlainPage == <<"<","h","t","m","l",">","<","/","h","t","m","l",">">>
BrokenPage == <<"<","s","c","r","i","p","t",">","y","t","I","n","i","t","i","a","l","D","a","t","a","<","/","s","c","r","i","p","t",">">>

Network ==
    <<PlainPage,
      PageText("marker", <<<<FullEntry>>, <<BareEntry>>>>),
      PageText("marker", <<<<BareEntry>>>>),
      BrokenPage,
      PageText("marker", <<<<NullThumbEntry>>>>)>>

BodyIds == DOMAIN Network

\* responseText.includes(this._YT_INITIAL_DATA_MARKER), per body.
hasMarker == [b \in BodyIds |-> includes(Network[b], YT_INITIAL_DATA_MARKER)]

\* The array _parseHtml(response) resolves to, per body.
parseHtmlOf == [b \in BodyIds |-> JArr(_parseHtml(Network[b]))]

-----------------------------------------------------------------------------
(* YoutubeSearch: search, _search, _getResponseWithRetry *)

\* SearchUrl with the test for a caller-supplied URL left out.
SearchUrl_alwaysEncodes(terms) ==
    LET enc == encodeURIComponent(terms)
    IN  IF enc.threw THEN [threw |-> TRUE, v |-> <<>>]
        ELSE [threw |-> FALSE, v |-> BASE_URL \o SearchPath \o enc.v]

\* _search: const url.  [threw |-> TRUE] is the URIError of
\* encodeURIComponent.
SearchUrl(terms) ==
    IF startsWith(terms, BASE_URL)
    THEN [threw |-> FALSE, v |-> terms]
    ELSE LET enc == encodeURIComponent(terms)
         IN  IF enc.threw THEN [threw |-> TRUE, v |-> <<>>]
             ELSE [threw |-> FALSE, v |-> BASE_URL \o SearchPath \o enc.v]

\* LoopContinues with the comparison off by one.
LoopContinues_offByOne(a, retryCount) == a <= retryCount

\* for (...; attempt < this.RETRY_COUNT; ...)
LoopContinues(a, retryCount) == a < retryCount

\* The methods of the runtime's console object.
ConsoleMethods == {"log", "info", "warn", "error", "debug", "trace"}

\* search_catch rethrowing the error instead of returning [].
search_catch_rethrows(error, vids) ==
    [settled |-> "rejected", ret |-> Undefined, videos |-> vids]

\* search_catch resetting this.videos before returning [].
search_catch_clears(error, vids) ==
    [settled |-> "resolved", ret |-> JArr(<<>>), videos |-> Null]

\* search(): catch (error) { console.error(...); return []; } -- how the
\* promise settles, and this.videos afterwards (vids: its value before).
search_catch(error, vids) ==
    [settled |-> "resolved", ret |-> JArr(<<>>), videos |-> vids]

InFlight(c) == pc[c] \notin {"idle", "done"}

Outcome(kind, body) == [kind |-> kind, body |-> body]

\* An error leaves _search and reaches the catch of search().
Thrown(c, error) ==
    LET r == search_catch(error, videos[inst[c]])
    IN  /\ pc' = [pc EXCEPT ![c] = "done"]
        /\ settled' = [settled EXCEPT ![c] = r.settled]
        /\ ret' = [ret EXCEPT ![c] = r.ret]
        /\ thrown' = [thrown EXCEPT ![c] = error]
        /\ videos' = [videos EXCEPT ![inst[c]] = r.videos]

\* The catch inside the retry loop, entered with error e.
CatchInLoop(c, e) ==
    IF attempt[c] < RETRY_COUNT[inst[c]] - 1
    THEN IF "warning" \in ConsoleMethods
         THEN /\ pc' = [pc EXCEPT ![c] = "delay"]
              /\ UNCHANGED <<settled, ret, thrown, videos>>
         ELSE Thrown(c, "TypeError")
    ELSE Thrown(c, e)

\* The head of the retry loop, reached with attempt = a: the next GET, or
\* the error thrown after the loop.
LoopHead(c, a) ==
    IF LoopContinues(a, RETRY_COUNT[inst[c]])
    THEN /\ pc' = [pc EXCEPT ![c] = "fetch"]
         /\ reqs' = [reqs EXCEPT ![c] = Append(@, url[c])]
         /\ UNCHANGED <<settled, ret, thrown, videos>>
    ELSE /\ Thrown(c, "MarkerNotFound")
         /\ UNCHANGED reqs

\* search() is called: _search chooses the URL and _getResponseWithRetry
\* issues the first GET.
search(c) ==
    /\ ~InFlight(c)
    /\ LET u == SearchUrl(searchTerms[inst[c]])
       IN  /\ url' = [url EXCEPT ![c] = u.v]
           /\ IF u.threw
              THEN /\ Thrown(c, "URIError")
                   /\ reqs' = [reqs EXCEPT ![c] = <<>>]
              ELSE IF LoopContinues(0, RETRY_COUNT[inst[c]])
              THEN /\ pc' = [pc EXCEPT ![c] = "fetch"]
                   /\ reqs' = [reqs EXCEPT ![c] = <<u.v>>]
                   /\ settled' = [settled EXCEPT ![c] = "pending"]
                   /\ ret' = [ret EXCEPT ![c] = Undefined]
                   /\ thrown' = [thrown EXCEPT ![c] = "none"]
                   /\ UNCHANGED videos
              ELSE /\ Thrown(c, "MarkerNotFound")
                   /\ reqs' = [reqs EXCEPT ![c] = <<>>]
    /\ attempt' = [attempt EXCEPT ![c] = 0]
    /\ responseText' = [responseText EXCEPT ![c] = 0]
    /\ parsed' = [parsed EXCEPT ![c] = Null]
    /\ hist' = [hist EXCEPT ![c] = <<>>]
    /\ wrote' = [wrote EXCEPT ![c] = {}]
    /\ overlapped' = \E d \in Callers \ {c} : InFlight(d)
    /\ UNCHANGED parseVars
    /\ UNCHANGED <<searchTerms, maxResults, RETRY_COUNT, inst, lastOk>>

\* await fetch(url) settles: a response that is ok, one that is not, or a
\* transport error.
fetchSettled(c) ==
    /\ pc[c] = "fetch"
    /\ \E o \in {"ok", "notok", "reject"} :
          IF o = "ok"
          THEN /\ pc' = [pc EXCEPT ![c] = "text"]
               /\ UNCHANGED <<hist, settled, ret, thrown, videos>>
          ELSE /\ hist' = [hist EXCEPT ![c] = Append(@, Outcome(o, 0))]
               /\ CatchInLoop(c, IF o = "notok" THEN "HTTPError" ELSE "FetchError")
    /\ UNCHANGED parseVars
    /\ UNCHANGED <<searchTerms, maxResults, RETRY_COUNT, inst, url, attempt,
                   responseText, parsed, reqs, wrote, overlapped, lastOk>>

\* await response.text() settles: a body (with the marker: returned to
\* _search; without: the delay starts), or an error reading it.
textSettled(c) ==
    /\ pc[c] = "text"
    /\ \E b \in BodyIds \cup {0} :
          IF b = 0
          THEN /\ hist' = [hist EXCEPT ![c] = Append(@, Outcome("badbody", 0))]
               /\ CatchInLoop(c, "BodyError")
               /\ UNCHANGED responseText
          ELSE /\ hist' = [hist EXCEPT ![c] = Append(@, Outcome("body", b))]
               /\ IF hasMarker[b]
                  THEN /\ pc' = [pc EXCEPT ![c] = "resp"]
                       /\ responseText' = [responseText EXCEPT ![c] = b]
                  ELSE /\ pc' = [pc EXCEPT ![c] = "delay"]
                       /\ UNCHANGED responseText
               /\ UNCHANGED <<settled, ret, thrown, videos>>
    /\ UNCHANGED parseVars
    /\ UNCHANGED <<searchTerms, maxResults, RETRY_COUNT, inst, url, attempt,
                   parsed, reqs, wrote, overlapped, lastOk>>

\* The retry delay elapses: attempt++ and the loop condition.
delayDone(c) ==
    /\ pc[c] = "delay"
    /\ attempt' = [attempt EXCEPT ![c] = @ + 1]
    /\ LoopHead(c, attempt[c] + 1)
    /\ UNCHANGED parseVars
    /\ UNCHANGED <<searchTerms, maxResults, RETRY_COUNT, inst, url,
                   responseText, parsed, hist, wrote, overlapped, lastOk>>

\* parseStep reading the response from a place all invocations share: the
\* body another invocation read, when there is one.
parseStep_sharedResponse(c) ==
    /\ pc[c] = "resp"
    /\ LET others == {d \in Callers \ {c} : responseText[d] # 0}
           from == IF others = {} THEN c ELSE CHOOSE d \in others : TRUE
       IN  parsed' = [parsed EXCEPT ![c] = parseHtmlOf[responseText[from]]]
    /\ pc' = [pc EXCEPT ![c] = "parsed"]
    /\ UNCHANGED parseVars
    /\ UNCHANGED <<searchTerms, maxResults, RETRY_COUNT, videos, inst, url,
                   attempt, responseText, settled, ret, thrown, reqs, hist,
                   wrote, overlapped, lastOk>>

\* _search resumes with the response and calls _parseHtml.
parseStep(c) ==
    /\ pc[c] = "resp"
    /\ parsed' = [parsed EXCEPT ![c] = parseHtmlOf[responseText[c]]]
    /\ pc' = [pc EXCEPT ![c] = "parsed"]
    /\ UNCHANGED parseVars
    /\ UNCHANGED <<searchTerms, maxResults, RETRY_COUNT, videos, inst, url,
                   attempt, responseText, settled, ret, thrown, reqs, hist,
                   wrote, overlapped, lastOk>>

\* search() resumes: this.videos = <the array>; return this.videos || [].
searchReturn(c) ==
    /\ pc[c] = "parsed"
    /\ videos' = [videos EXCEPT ![inst[c]] = parsed[c]]
    /\ ret' = [ret EXCEPT ![c] = OrElse(videos'[inst[c]], JArr(<<>>))]
    /\ settled' = [settled EXCEPT ![c] = "resolved"]
    /\ pc' = [pc EXCEPT ![c] = "done"]
    /\ wrote' = [wrote EXCEPT ![c] = @ \cup {<<inst[c], "videos">>}]
    /\ lastOk' = [lastOk EXCEPT ![inst[c]] = ret'[c]]
    /\ UNCHANGED parseVars
    /\ UNCHANGED <<searchTerms, maxResults, RETRY_COUNT, inst, url, attempt,
                   responseText, parsed, thrown, reqs, hist, overlapped>>

Step(c) ==
    \/ search(c)
    \/ fetchSettled(c)
    \/ textSettled(c)
    \/ delayDone(c)
    \/ parseStep(c)
    \/ searchReturn(c)

-----------------------------------------------------------------------------
(* Specifications *)

\* No invocation yet, made on instances built from the given arguments.
Constructed(objs, on) ==
    /\ searchTerms = [i \in Instances |-> objs[i].searchTerms]
    /\ maxResults = [i \in Instances |-> objs[i].maxResults]
    /\ RETRY_COUNT = [i \in Instances |-> objs[i].RETRY_COUNT]
    /\ videos = [i \in Instances |-> objs[i].videos]
    /\ inst = on
    /\ pc = [c \in Callers |-> "idle"]
    /\ url = [c \in Callers |-> <<>>]
    /\ attempt = [c \in Callers |-> 0]
    /\ responseText = [c \in Callers |-> 0]
    /\ parsed = [c \in Callers |-> Null]
    /\ settled = [c \in Callers |-> "pending"]
    /\ ret = [c \in Callers |-> Undefined]
    /\ thrown = [c \in Callers |-> "none"]
    /\ reqs = [c \in Callers |-> <<>>]
    /\ hist = [c \in Callers |-> <<>>]
    /\ wrote = [c \in Callers |-> {}]
    /\ overlapped = FALSE
    /\ lastOk = [i \in Instances |-> Null]

NoText ==
    /\ hPc = "input"
    /\ hLayout = "marker"
    /\ hItems = <<>>
    /\ hText = <<>>
    /\ hOut = <<>>
    /\ hPath = <<>>
    /\ hIdx = <<0, 0>>
    /\ hOut2 = <<>>

Defaults == [maxResults |-> 0, retryCount |-> 0]

\* One caller calling search() again and again on one instance, built from
\* any of the search terms and options.
Init ==
    /\ \E t \in Terms, o \in Options :
          Constructed([i \in Instances |->
                          IF i = 1 THEN YoutubeSearch(t, o)
                          ELSE YoutubeSearch(T_plain, Defaults)],
                      [c \in Callers |-> 1])
    /\ NoText

Next == Step(1)

Spec == Init /\ [][Next]_vars

\* Two callers, on the same instance or on two instances.
InitConc ==
    /\ \E on \in [Callers -> Instances] :
          /\ on[1] = 1
          /\ Constructed([i \in Instances |->
                             YoutubeSearch(IF i = 1 THEN T_plain ELSE T_space,
                                           [maxResults |-> 0, retryCount |-> MaxRetry])],
                         on)
    /\ NoText

NextConc == \E c \in Callers : Step(c)

SpecConc == InitConc /\ [][NextConc]_vars

\* _parseHtml on its own.
InitText ==
    /\ Constructed([i \in Instances |-> YoutubeSearch(T_plain, Defaults)],
                   [c \in Callers |-> 1])
    /\ InitParse

NextText == ParseText \/ ParseWithoutKey

SpecParse == InitText /\ [][NextText]_vars

-----------------------------------------------------------------------------
(* Properties *)

Last(h) == h[Len(h)]

FetchFailed(c) == pc[c] = "done" /\ responseText[c] = 0

\* C1: search() never surfaces an error: its promise never rejects; once the
\* call has returned it resolved to an array, and to the empty array
\* whenever the fetch loop (or the choice of the URL) failed.
C1_SearchNeverRejects ==
    \A c \in Callers :
        /\ settled[c] # "rejected"
        /\ pc[c] = "done" => settled[c] = "resolved" /\ ret[c].t = "array"
        /\ FetchFailed(c) => ret[c] = JArr(<<>>)
        /\ thrown[c] # "none" => ret[c] = JArr(<<>>)

\* A transport error on the last attempt, absorbed by search().
C1_Witness ==
    \E c \in Callers :
        /\ pc[c] = "done"
        /\ thrown[c] = "FetchError"
        /\ Len(reqs[c]) >= 2
        /\ settled[c] = "resolved"

\* C2: an attempt that raises an error (the GET fails, or the status is not
\* success) while attempts remain is followed by the delay and the next GET;
\* only on the last of the retryCount attempts does that error leave the
\* fetcher, after exactly retryCount GETs.
C2_RetryAfterError ==
    \A c \in Callers :
        (hist[c] # <<>> /\ Last(hist[c]).kind \in {"reject", "notok"}) =>
            IF Len(hist[c]) < RETRY_COUNT[inst[c]]
            THEN pc[c] \in {"delay", "fetch", "text"}
            ELSE /\ pc[c] = "done"
                 /\ thrown[c] \in {"FetchError", "HTTPError"}
                 /\ Len(reqs[c]) = RETRY_COUNT[inst[c]]

AllWithoutMarker(h) ==
    \A k \in 1..Len(h) : h[k].kind = "body" /\ ~hasMarker[h[k].body]

\* C3: the GETs are issued one after another and never more than retryCount
\* of them; when every attempt delivers a success response without the
\* marker the fetcher issues exactly retryCount GETs and then fails with
\* the 'could not get ytInitialData' error; when an attempt's body holds
\* the marker the fetcher returns that body and issues no further GET.
C3_RetryBudget ==
    \A c \in Callers :
        /\ Len(reqs[c]) <= RETRY_COUNT[inst[c]]
        /\ Len(reqs[c]) - Len(hist[c]) \in {0, 1}
        /\ (pc[c] = "done" /\ hist[c] # <<>> /\ AllWithoutMarker(hist[c])) =>
              /\ Len(reqs[c]) = RETRY_COUNT[inst[c]]
              /\ Len(hist[c]) = RETRY_COUNT[inst[c]]
              /\ thrown[c] = "MarkerNotFound"
        /\ thrown[c] = "MarkerNotFound" =>
              AllWithoutMarker(hist[c]) /\ Len(hist[c]) = RETRY_COUNT[inst[c]]
        /\ (hist[c] # <<>> /\ Last(hist[c]).kind = "body"
               /\ hasMarker[Last(hist[c]).body]) =>
              /\ pc[c] \in {"resp", "parsed", "done"}
              /\ responseText[c] = Last(hist[c]).body
              /\ Len(reqs[c]) = Len(hist[c])
              /\ thrown[c] = "none"

\* Every one of at least two attempts lacked the marker.
C3_Witness ==
    \E c \in Callers :
        /\ pc[c] = "done"
        /\ thrown[c] = "MarkerNotFound"
        /\ Len(reqs[c]) = RETRY_COUNT[inst[c]]
        /\ RETRY_COUNT[inst[c]] >= 2

ExpectedTarget(terms) ==
    IF startsWith(terms, BASE_URL) THEN terms
    ELSE BASE_URL \o SearchPath \o encodeURIComponent(terms).v

\* C6: every GET of a call, the retries included, goes to the same target:
\* the input itself when it begins with the base URL, otherwise the base
\* URL, "/results?search_query=" and the percent-encoded input.
C6_TargetUrl ==
    \A c \in Callers : \A k \in 1..Len(reqs[c]) :
        /\ reqs[c][k] = ExpectedTarget(searchTerms[inst[c]])
        /\ searchTerms[inst[c]] = T_url =>
              reqs[c][k] = <<"h","t","t","p","s",":","/","/","y","o","u","t","u","b","e",".","c","o","m","/","r","e","s","u","l","t","s","?","s","e","a","r","c","h","_","q","u","e","r","y","=","x">>
        /\ searchTerms[inst[c]] = T_space =>
              reqs[c][k] = <<"h","t","t","p","s",":","/","/","y","o","u","t","u","b","e",".","c","o","m","/","r","e","s","u","l","t","s","?","s","e","a","r","c","h","_","q","u","e","r","y","=","a","%","2","0","b">>
        /\ searchTerms[inst[c]] = T_short =>
              reqs[c][k] = <<"h","t","t","p","s",":","/","/","y","o","u","t","u","b","e",".","c","o","m","/","r","e","s","u","l","t","s","?","s","e","a","r","c","h","_","q","u","e","r","y","=","h","t","t","p","s","%","3","A","%","2","F","%","2","F","y","o","u","t","u","b","e",".","c","o">>

\* A caller-supplied URL, requested a second time after a retry.
C6_Witness ==
    \E c \in Callers :
        /\ searchTerms[inst[c]] = T_url
        /\ Len(reqs[c]) >= 2
        /\ reqs[c][2] = T_url

\* C7: with maxResults = m the array search() returns has at most m records.
C7_AtMostMaxResults ==
    \A c \in Callers :
        (pc[c] = "done" /\ ret[c].t = "array" /\ maxResults[inst[c]] > 0) =>
            Len(ret[c].a) <= maxResults[inst[c]]

\* C8 (as claimed): two invocations that were in flight at the same time
\* write no common variable.
C8_NoSharedState ==
    overlapped => wrote[1] \cap wrote[2] = {}

\* C8 (amended): an invocation assigns no instance field but `videos` of its
\* own instance, and only when it returns the array parsed from the body it
\* read itself; so invocations on different instances share nothing, and on
\* one instance `videos` holds what the invocation that returned last
\* returned.
C8_SharesOnlyVideos ==
    /\ [](\A c \in Callers :
            /\ wrote[c] \subseteq {<<inst[c], "videos">>}
            /\ (pc[c] = "done" /\ responseText[c] # 0) =>
                  ret[c] = JArr(_parseHtml(Network[responseText[c]])))
    /\ [](\A i \in Instances : videos[i] = lastOk[i])
    /\ [][\A i \in Instances :
            videos'[i] # videos[i] =>
               \E c \in Callers :
                  /\ inst[c] = i
                  /\ pc[c] = "parsed" /\ pc'[c] = "done"
                  /\ videos'[i] = ret'[c]
                  /\ <<i, "videos">> \in wrote'[c]]_vars

\* Two overlapping invocations on one instance, each returned its own page's
\* records, both assigned `videos`.
C8_Witness ==
    /\ overlapped
    /\ inst[1] = inst[2]
    /\ pc[1] = "done" /\ pc[2] = "done"
    /\ wrote[1] = wrote[2] /\ wrote[1] # {}
    /\ ret[1] # ret[2]
    /\ ret[1].a # <<>> /\ ret[2].a # <<>>
    /\ videos[inst[1]] = ret[2]

\* C10: `videos` is what the last search() whose fetch succeeded returned
\* (null before the first); a search() whose fetch succeeded returns
\* `videos`, one whose fetch failed returns the empty array and leaves
\* `videos` as it was.
C10_VideosFrame ==
    /\ \A i \in Instances : videos[i] = lastOk[i]
    /\ \A c \in Callers :
          pc[c] = "done" =>
             IF responseText[c] # 0
             THEN videos[inst[c]] = ret[c] /\ thrown[c] = "none"
             ELSE ret[c] = JArr(<<>>) /\ thrown[c] # "none"

\* A search() that failed after an earlier one had stored records.
C10_Witness ==
    \E c \in Callers :
        /\ pc[c] = "done"
        /\ thrown[c] = "TypeError"
        /\ videos[inst[c]] # Null
        /\ videos[inst[c]] = lastOk[inst[c]]
        /\ Len(lastOk[inst[c]].a) = 2

\* The videoRenderer entries of the sections, in source order.
RECURSIVE Flatten(_)
Flatten(sections) ==
    IF sections = <<>> THEN <<>> ELSE Head(sections) \o Flatten(Tail(sections))

VideoEntries(sections) ==
    SelectSeq(Flatten(sections), LAMBDA e : HasKey(e, K_videoRenderer))

\* Every thumbnail list of the sections is a list of objects.
ThumbnailsWellFormed(sections) ==
    \A k \in 1..Len(VideoEntries(sections)) :
        ~ThumbnailsThrow(Get(VideoEntries(sections)[k], K_videoRenderer))

\* C4: from a text holding `ytInitialData = {...};` with N videoRenderer
\* entries under the expected path, _parseHtml returns exactly N records, in
\* source order, whatever the string values hold ("};" and the marker text
\* included).
C4_ExactlyNInOrder ==
    (hPc # "input" /\ hLayout = "marker" /\ ThumbnailsWellFormed(hItems)) =>
        /\ Len(hOut) = Len(VideoEntries(hItems))
        /\ \A k \in 1..Len(hOut) :
              hOut[k].id = Get(Get(VideoEntries(hItems)[k], K_videoRenderer), K_videoId)

\* C5: from a text without the marker _parseHtml returns the empty sequence.
C5_NoMarkerNoRecords ==
    (hPc # "input" /\ ~includes(hText, YT_INITIAL_DATA_MARKER)) => hOut = <<>>

\* The record fields a source path feeds.
FieldsOf(path) ==
    CASE Head(path) = K_thumbnail -> {"thumbnails"}
      [] Head(path) = K_title -> {"title"}
      [] Head(path) = K_descriptionSnippet -> {"longDesc"}
      [] Head(path) = K_longBylineText -> {"channel"}
      [] Head(path) = K_lengthText -> {"duration"}
      [] Head(path) = K_viewCountText -> {"views"}
      [] Head(path) = K_publishedTimeText -> {"publishTime"}
      [] Head(path) = K_navigationEndpoint -> {"urlSuffix", "ytUrl"}

\* The record with the fields of the path empty: null, [] for thumbnails.
Cleared(rec, path) ==
    [f \in DOMAIN rec |->
        IF f \notin FieldsOf(path) THEN rec[f]
        ELSE IF f = "thumbnails" THEN JArr(<<>>) ELSE Null]

\* The position, among the videoRenderer entries, of entry <<si, ii>>.
RecordIndex(sections, si, ii) ==
    Len(VideoEntries(SubSeq(sections, 1, si - 1)))
    + Len(VideoEntries(<<SubSeq(sections[si], 1, ii)>>))

\* C9: in a text whose object parses, removing a key of one source path from
\* one videoRenderer entry leaves the number and order of the records
\* unchanged and changes nothing but the field (ytUrl with urlSuffix) of
\* that entry's record, which becomes null (the empty list for thumbnails).
C9_FieldsIndependent ==
    (hPc = "compared" /\ JSON_parse(JsonSlice(hText)).ok) =>
        /\ Len(hOut2) = Len(hOut)
        /\ \A k \in 1..Len(hOut) :
              k <= Len(hOut2) =>
                 hOut2[k] = IF k = RecordIndex(hItems, hIdx[1], hIdx[2])
                            THEN Cleared(hOut[k], hPath) ELSE hOut[k]

====
